---- MODULE Spec2Model ----
(***************************************************************************)
(* MiniClub mini-golf portal (src/app.py): the identity store             *)
(* (usuarios.csv), the score ledger (scores.csv), its Google Sheets        *)
(* mirror and the ranking view, as a state machine.  One action is one     *)
(* Streamlit script run triggered by one widget event.                     *)
(*                                                                         *)
(* Text is a sequence of one-character strings, so that str.strip(),       *)
(* str.lower(), EMAIL_RE and the CSV round trip are computed, not assumed. *)
(* A DataFrame cell is either such a text or NaN, the float pandas puts    *)
(* where read_csv finds an empty field or one of its default NA markers.   *)
(***************************************************************************)
EXTENDS Integers, Sequences, FiniteSets, TLC

VARIABLES
    usersFile,      \* usuarios.csv: [readable, rows], rows as written text
    scoresFile,     \* scores.csv:   [readable, rows], rows as written text
    sheet,          \* rows appended to the Google Sheets worksheet, in order
    user,           \* st.session_state["user"]: None or a profile dict
    menu,           \* st.session_state["menu"]
    menu_request,   \* st.session_state["menu_request"], or Absent
    clk,            \* index of the current instant of the wall clock
    USE_GOOGLE_SHEETS, \* module flag after the import attempt (lines 34-45)
    hasRerun,       \* hasattr(st, "experimental_rerun") in this build
    sortTies,       \* how this build's quicksort leaves rows of equal total
    mostrar,        \* the ranking table last rendered
    outcome,        \* what the last script run did: [op, input, result]
    writers         \* other browser sessions inside a run of form_puntaje

vars == <<usersFile, scoresFile, sheet, user, menu, menu_request, clk,
          USE_GOOGLE_SHEETS, hasRerun, sortTies, mostrar, outcome, writers>>

(***************************************************************************)
(* Bounds of the model.                                                    *)
(***************************************************************************)
MaxRows == 2
MaxClock == 2

(***************************************************************************)
(* Python text operations.                                                 *)
(***************************************************************************)
Whitespace == {" "}

RECURSIVE LStrip(_)
LStrip(s) ==
    IF s # <<>> /\ Head(s) \in Whitespace THEN LStrip(Tail(s)) ELSE s

RECURSIVE RStrip(_)
RStrip(s) ==
    IF s # <<>> /\ s[Len(s)] \in Whitespace
    THEN RStrip(SubSeq(s, 1, Len(s) - 1))
    ELSE s

\* str.strip()
Strip(s) == RStrip(LStrip(s))

LowerChar(c) ==
    CASE c = "A" -> "a"
      [] c = "B" -> "b"
      [] c = "N" -> "n"
      [] OTHER -> c

\* str.lower()
Lower(s) == [i \in 1..Len(s) |-> LowerChar(s[i])]

\* the normalisation with the lower-casing left out
NormalizeNoLower(email) == Strip(email)

\* email.strip().lower(), lines 127 and 160
Normalize(email) == Lower(Strip(email))

(***************************************************************************)
(* EMAIL_RE.match(s): the pattern [^@]+@[^@]+\.[^@]+ matched at the start  *)
(* of s (re.match anchors the start only, the rest of s is free).          *)
(***************************************************************************)
EMAIL_RE(s) ==
    \E i \in 2..Len(s) :
        /\ s[i] = "@"
        /\ \A k \in 1..(i - 1) : s[k] # "@"
        /\ \E j \in (i + 2)..(Len(s) - 1) :
              /\ s[j] = "."
              /\ \A k \in (i + 1)..(j + 1) : s[k] # "@"

(***************************************************************************)
(* pandas CSV round trip.  read_csv turns an empty field and the default   *)
(* NA markers into NaN; to_csv writes NaN as the empty field (na_rep="").  *)
(* The markers listed are those of the pandas default list that can be     *)
(* spelled with the letters the inputs below use (the full list also has   *)
(* "null", "NULL", "N/A", "n/a", "None", "#N/A", "<NA>", ...).  The inputs  *)
(* hold no digits, so numeric type inference is not exercised.             *)
(***************************************************************************)
NaN == <<"float('nan')">>

NaValues == { <<>>, <<"N", "A">>, <<"N", "a", "N">>, <<"n", "a", "n">> }

\* one text field as read_csv delivers it
ReadCell(text) == IF text \in NaValues THEN NaN ELSE text

\* one cell as to_csv writes it
WriteCell(v) == IF v = NaN THEN <<>> ELSE v

\* Python truthiness of a cell: "" is falsy, any other str and NaN are truthy
Truthy(v) == v # <<>>

(***************************************************************************)
(* The wall clock.  Time is counted in half seconds, so that datetime.now()*)
(* has a sub-second part that strftime("%Y-%m-%d %H:%M:%S") drops.         *)
(***************************************************************************)
UnitsPerSecond == 2
SecondsPerDay == 86400
DayUnits == SecondsPerDay * UnitsPerSecond

\* the instants at which the program is observed to run
Instant(i) ==
    CASE i = 1 -> 40 * DayUnits
      [] i = 2 -> 40 * DayUnits + 1
      [] i = 3 -> 40 * DayUnits + UnitsPerSecond
      [] i = 4 -> 41 * DayUnits - 1
      [] i = 5 -> 47 * DayUnits + UnitsPerSecond
      [] OTHER -> (40 + i) * DayUnits

\* datetime.now()
Now == Instant(clk)

\* strftime("%Y-%m-%d %H:%M:%S") read back by pd.to_datetime: whole seconds
Strftime(t) == t - (t % UnitsPerSecond)

(***************************************************************************)
(* Session values.                                                         *)
(***************************************************************************)
None == [py |-> "None"]
Absent == "absent"
LoginScreen == "Iniciar sesion / Registro"
ScoreScreen == "Registrar puntaje"
RankScreen == "Ver ranking"
Screens == {LoginScreen, ScoreScreen, RankScreen}

\* lines 113-117: an unreadable file is swallowed and read as an empty frame
UsersFrame(rows) ==
    [i \in 1..Len(rows) |->
        [email |-> ReadCell(rows[i].email),
         nombre |-> ReadCell(rows[i].nombre),
         nickname |-> ReadCell(rows[i].nickname),
         fecha_registro |-> rows[i].fecha_registro]]

load_users ==
    IF usersFile.readable THEN UsersFrame(usersFile.rows) ELSE <<>>

\* lines 120-121: df.to_csv(USERS_FILE, index=False) rewrites the whole file
save_users(df) ==
    [readable |-> TRUE,
     rows |-> [i \in 1..Len(df) |->
                 [email |-> WriteCell(df[i].email),
                  nombre |-> WriteCell(df[i].nombre),
                  nickname |-> WriteCell(df[i].nickname),
                  fecha_registro |-> df[i].fecha_registro]]]

\* email in df["email"].values
EmailIn(email, df) == \E i \in 1..Len(df) : df[i].email = email

\* df[df["email"] == email].iloc[0].to_dict()
FirstRow(email, df) ==
    df[CHOOSE i \in 1..Len(df) :
          /\ df[i].email = email
          /\ \A k \in 1..(i - 1) : df[k].email # email]

\* lines 182-192
get_display_name(u) ==
    IF u = None THEN <<>>
    ELSE IF Truthy(u.nickname) THEN u.nickname
    ELSE IF Truthy(u.nombre) THEN u.nombre
    ELSE u.email

(***************************************************************************)
(* The score ledger, lines 307-343.                                        *)
(***************************************************************************)
NumHoles == 14
MinStrokes == 1
MaxStrokes == 20
DefaultStrokes == 3

RECURSIVE Sum(_)
Sum(s) == IF s = <<>> THEN 0 ELSE Head(s) + Sum(Tail(s))

\* number inputs that enforce min_value only
NumberInputsAcceptNoMax(entered) ==
    /\ Len(entered) = NumHoles
    /\ \A i \in 1..Len(entered) : entered[i] >= MinStrokes

\* lines 317-327: the form holds exactly one number_input per hole, and a
\* number_input delivers only values within [min_value, max_value]
NumberInputsAccept(entered) ==
    /\ Len(entered) = NumHoles
    /\ \A i \in 1..Len(entered) :
          entered[i] >= MinStrokes /\ entered[i] <= MaxStrokes

\* pd.read_csv(SCORES_FILE) on a readable file
ScoresFrame(rows) ==
    [i \in 1..Len(rows) |->
        [fecha |-> rows[i].fecha,
         email |-> ReadCell(rows[i].email),
         nombre_mostrar |-> ReadCell(rows[i].nombre_mostrar),
         golpes |-> rows[i].golpes,
         total |-> rows[i].total]]

\* df_scores.to_csv(SCORES_FILE, index=False) rewrites the whole file
ScoresCsv(df) ==
    [readable |-> TRUE,
     rows |-> [i \in 1..Len(df) |->
                 [fecha |-> df[i].fecha,
                  email |-> WriteCell(df[i].email),
                  nombre_mostrar |-> WriteCell(df[i].nombre_mostrar),
                  golpes |-> df[i].golpes,
                  total |-> df[i].total]]]

\* a total that misses the last hole
TotalOffByOne(golpes) == Sum(SubSeq(golpes, 1, Len(golpes) - 1))

\* line 331
Total(golpes) == Sum(golpes)

\* line 301: user.get("email") if user else ""
user_email(u) == IF u = None THEN <<>> ELSE u.email

\* line 336: nueva_fila = [fecha, user_email, display_name] + golpes + [total]
nueva_fila(u, golpes) ==
    [fecha |-> Strftime(Now),
     email |-> user_email(u),
     nombre_mostrar |-> get_display_name(u),
     golpes |-> golpes,
     total |-> Total(golpes)]

\* lines 335-338: read the whole file, add the row, rewrite the whole file
LocalWrite(rows, fila) == ScoresCsv(Append(ScoresFrame(rows), fila))

(***************************************************************************)
(* The Google Sheets mirror, lines 71-104.  conn is what the service does  *)
(* on this call: "ok", "client_error" (credentials or authorisation fail   *)
(* in get_gsheet_client) or "append_error" (open/append_row raises).  A    *)
(* row holding NaN cannot be encoded as JSON, so append_row raises on it.  *)
(* Every exception is caught and shown as a sidebar warning.               *)
(***************************************************************************)
Connections == {"ok", "client_error", "append_error"}

HasNaN(fila) == fila.email = NaN \/ fila.nombre_mostrar = NaN

\* append_to_gsheet without the try/except around open and append_row
RelayStatusUncaught(fila, conn) ==
    IF ~USE_GOOGLE_SHEETS THEN "disabled"
    ELSE IF conn = "client_error" THEN "no_client"
    ELSE IF conn = "append_error" \/ HasNaN(fila) THEN "raised"
    ELSE "appended"

\* how append_to_gsheet ends: "disabled" (lines 95-96), "no_client" (lines
\* 88-90 and 98-99), "warning" (lines 103-104) or "appended" (line 102);
\* "raised" would be an exception leaving the function, which no path does
RelayStatus(fila, conn) ==
    IF ~USE_GOOGLE_SHEETS THEN "disabled"
    ELSE IF conn = "client_error" THEN "no_client"
    ELSE IF conn = "append_error" \/ HasNaN(fila) THEN "warning"
    ELSE "appended"

append_to_gsheet(fila, conn) ==
    IF RelayStatus(fila, conn) = "appended" THEN Append(sheet, fila)
    ELSE sheet

(***************************************************************************)
(* The ranking view, lines 351-382.                                        *)
(***************************************************************************)
Historico == "Historico"
Hoy == "Hoy"
Ultimos7 == "Ultimos 7 dias"
Ultimos30 == "Ultimos 30 dias"
Filtros == {Historico, Hoy, Ultimos7, Ultimos30}
HeadLimit == 50

\* datetime.date(): the calendar day of an instant
DateOf(t) == t \div DayUnits

\* a window that takes "Hoy" as the last 24 hours
InWindowLastDay(filtro, fecha_dt, ahora) ==
    CASE filtro = Hoy -> fecha_dt >= ahora - DayUnits
      [] filtro = Ultimos7 -> fecha_dt >= ahora - 7 * DayUnits
      [] filtro = Ultimos30 -> fecha_dt >= ahora - 30 * DayUnits
      [] OTHER -> TRUE

\* lines 366-372: whether a row of the frame passes the window
InWindow(filtro, fecha_dt, ahora) ==
    CASE filtro = Hoy -> DateOf(fecha_dt) = DateOf(ahora)
      [] filtro = Ultimos7 -> fecha_dt >= ahora - 7 * DayUnits
      [] filtro = Ultimos30 -> fecha_dt >= ahora - 30 * DayUnits
      [] OTHER -> TRUE

\* the index labels of the rows the filter keeps
Filtered(filtro, df, ahora) ==
    {i \in 1..Len(df) : InWindow(filtro, df[i].fecha, ahora)}

(***************************************************************************)
(* line 377: df.sort_values("total") sorts with kind="quicksort", which    *)
(* pandas documents as not stable: rows of equal total come out in an      *)
(* order the build's sort decides.  sortTies fixes that order for a build: *)
(* "ledger" leaves equal totals in index order, "reverse" in the opposite  *)
(* order.                                                                  *)
(***************************************************************************)
TieOrders == {"ledger", "reverse"}

SortsBefore(df, i, j) ==
    \/ df[i].total < df[j].total
    \/ /\ df[i].total = df[j].total
       /\ IF sortTies = "ledger" THEN i < j ELSE i > j

\* the index labels of the kept rows, in sorted order
sort_values(df, keep) ==
    [k \in 1..Cardinality(keep) |->
        CHOOSE i \in keep :
            Cardinality({j \in keep : SortsBefore(df, j, i)}) = k - 1]

\* DataFrame.head(n)
FirstN(s, n) == SubSeq(s, 1, IF Len(s) < n THEN Len(s) ELSE n)

\* a ranking numbered like rank(method="min"): equal totals share a position
RankingSharedPos(filtro, df, ahora) ==
    LET keep == Filtered(filtro, df, ahora)
        order == sort_values(df, keep)
    IN FirstN([k \in 1..Len(order) |->
                  [pos |-> 1 + Cardinality({j \in keep :
                                  df[j].total < df[order[k]].total}),
                   index |-> order[k],
                   fecha |-> df[order[k]].fecha,
                   nombre_mostrar |-> df[order[k]].nombre_mostrar,
                   email |-> df[order[k]].email,
                   total |-> df[order[k]].total]],
              HeadLimit)

\* lines 377-380: sorted, numbered from 1, projected, cut to the first 50;
\* index is the row's label in the frame (its place in the ledger)
Ranking(filtro, df, ahora) ==
    LET order == sort_values(df, Filtered(filtro, df, ahora))
    IN FirstN([k \in 1..Len(order) |->
                  [pos |-> k,
                   index |-> order[k],
                   fecha |-> df[order[k]].fecha,
                   nombre_mostrar |-> df[order[k]].nombre_mostrar,
                   email |-> df[order[k]].email,
                   total |-> df[order[k]].total]],
              HeadLimit)

(***************************************************************************)
(* Script runs.  Every run first applies a pending menu_request (lines     *)
(* 232-233) and then renders the screen the menu names; a widget event is  *)
(* handled only by a run that renders the widget.                          *)
(***************************************************************************)
build == <<USE_GOOGLE_SHEETS, hasRerun, sortTies>>

\* lines 10-17: a handler stored req in menu_request and called safe_rerun();
\* with experimental_rerun the script runs again at once and applies it
NavigateTo(req) ==
    /\ menu' = IF hasRerun THEN req ELSE menu
    /\ menu_request' = IF hasRerun THEN Absent ELSE req

Stay == UNCHANGED <<menu, menu_request>>

\* a script that renders every screen without asking for a session
RequiresLoginNever(m) == FALSE

\* lines 294-297: below the login screen, a run without a user ends at
\* st.stop() before it renders the screen's widgets
RequiresLogin(m) == m # LoginScreen /\ user = None

\* lines 168-179 and 226-227: the sidebar button exists only with a user
cerrar_sesion ==
    /\ user # None
    /\ user' = None
    /\ menu' = LoginScreen
    /\ menu_request' = Absent
    /\ mostrar' = <<>>
    /\ outcome' = [op |-> "cerrar_sesion", result |-> "ok"]
    /\ UNCHANGED <<usersFile, scoresFile, sheet, clk, build, writers>>

\* lines 157-165
login_user(email) ==
    LET df == load_users
        e == Normalize(email)
    IN IF EmailIn(e, df) THEN FirstRow(e, df) ELSE None

\* lines 257-273
form_entrar(email_login) ==
    /\ menu = LoginScreen
    /\ menu_request = Absent
    /\ mostrar' = <<>>
    /\ UNCHANGED <<usersFile, scoresFile, sheet, clk, build, writers>>
    /\ IF Strip(email_login) = <<>> \/ ~EMAIL_RE(Strip(email_login))
       THEN /\ outcome' = [op |-> "form_entrar", args |-> <<email_login>>,
                           result |-> "InvalidEmail"]
            /\ UNCHANGED user
            /\ Stay
       ELSE LET found == login_user(email_login)
            IN IF found # None
               THEN /\ user' = found
                    /\ NavigateTo(ScoreScreen)
                    /\ outcome' = [op |-> "form_entrar",
                                   args |-> <<email_login>>,
                                   result |-> "ok"]
               ELSE /\ UNCHANGED user
                    /\ Stay
                    /\ outcome' = [op |-> "form_entrar",
                                   args |-> <<email_login>>,
                                   result |-> "NotFound"]

\* lines 129-138: the frame after the existing user's optional data is set
UpdatedFrame(df, e, nombre, nickname) ==
    LET old == FirstRow(e, df)
        nom == IF Strip(nombre) # <<>> THEN Strip(nombre) ELSE old.nombre
        nic == IF Strip(nickname) # <<>> THEN Strip(nickname)
               ELSE old.nickname
    IN [i \in 1..Len(df) |->
           IF df[i].email = e
           THEN [df[i] EXCEPT !.nombre = nom, !.nickname = nic]
           ELSE df[i]]

\* lines 142-148
nueva(e, nombre, nickname) ==
    [email |-> e,
     nombre |-> Strip(nombre),
     nickname |-> Strip(nickname),
     fecha_registro |-> Strftime(Now)]

\* lines 124-154: the frame that is saved, and the profile that is returned
RegisterFrame(email, nombre, nickname) ==
    LET df == load_users
        e == Normalize(email)
    IN IF EmailIn(e, df)
       THEN UpdatedFrame(df, e, nombre, nickname)
       ELSE Append(df, nueva(e, nombre, nickname))

RegisterRow(email, nombre, nickname) ==
    LET df == load_users
        e == Normalize(email)
    IN IF EmailIn(e, df)
       THEN FirstRow(e, UpdatedFrame(df, e, nombre, nickname))
       ELSE nueva(e, nombre, nickname)

login_or_register(email, nombre, nickname) ==
    /\ usersFile' = save_users(RegisterFrame(email, nombre, nickname))
    /\ user' = RegisterRow(email, nombre, nickname)

\* lines 277-292
form_registrar(email_reg, nombre_reg, nick_reg) ==
    /\ menu = LoginScreen
    /\ menu_request = Absent
    /\ mostrar' = <<>>
    /\ UNCHANGED <<scoresFile, sheet, clk, build, writers>>
    /\ IF Strip(email_reg) = <<>> \/ ~EMAIL_RE(Strip(email_reg))
       THEN /\ outcome' = [op |-> "form_registrar",
                           args |-> <<email_reg, nombre_reg, nick_reg>>,
                           result |-> "InvalidEmail"]
            /\ UNCHANGED <<usersFile, user>>
            /\ Stay
       ELSE /\ login_or_register(email_reg, nombre_reg, nick_reg)
            /\ NavigateTo(ScoreScreen)
            /\ outcome' = [op |-> "form_registrar",
                           args |-> <<email_reg, nombre_reg, nick_reg>>,
                           result |-> "ok"]

\* lines 316-343.  disk is what the file system does to the rewrite of
\* scores.csv: "ok", or "write_denied" (to_csv cannot open the file).  An
\* exception ends the run where it is raised.
form_puntaje(entered, disk, conn) ==
    /\ menu = ScoreScreen
    /\ menu_request = Absent
    /\ ~RequiresLogin(menu)
    /\ mostrar' = <<>>
    /\ UNCHANGED <<usersFile, user, menu, menu_request, clk, build, writers>>
    /\ IF ~NumberInputsAccept(entered)
       THEN /\ outcome' = [op |-> "form_puntaje",
                           args |-> <<entered, disk, conn>>,
                           result |-> "InvalidScorecard"]
            /\ UNCHANGED <<scoresFile, sheet>>
       ELSE IF ~scoresFile.readable \/ disk # "ok"
       THEN /\ outcome' = [op |-> "form_puntaje",
                           args |-> <<entered, disk, conn>>,
                           result |-> "exception"]
            /\ UNCHANGED <<scoresFile, sheet>>
       ELSE /\ Len(scoresFile.rows) < MaxRows
            /\ scoresFile' = LocalWrite(scoresFile.rows,
                                        nueva_fila(user, entered))
            /\ sheet' = append_to_gsheet(nueva_fila(user, entered), conn)
            /\ outcome' = [op |-> "form_puntaje",
                           args |-> <<entered, disk, conn>>,
                           result |-> IF RelayStatus(
                                            nueva_fila(user, entered),
                                            conn) = "raised"
                                      THEN "exception"
                                      ELSE "saved"]

\* a ranking view that writes the frame it sorted back to scores.csv
LedgerSortedInPlace(filtro) ==
    LET df == ScoresFrame(scoresFile.rows)
        order == sort_values(df, Filtered(filtro, df, Now))
    IN ScoresCsv([k \in 1..Len(order) |-> df[order[k]]])

\* lines 354-382: the view adds fecha_dt, filters, sorts and cuts copies of
\* the frame it read and never calls to_csv; scores.csv stays as it is
LedgerAfterRanking(filtro) == scoresFile

\* lines 351-382: what a run that reaches the ranking screen renders
RenderRanking(filtro) ==
    IF ~scoresFile.readable
    THEN /\ mostrar' = <<>>
         /\ UNCHANGED scoresFile
         /\ outcome' = [op |-> "ver_ranking", args |-> <<filtro>>,
                        result |-> "exception"]
    ELSE /\ mostrar' = Ranking(filtro, ScoresFrame(scoresFile.rows), Now)
         /\ scoresFile' = LedgerAfterRanking(filtro)
         /\ outcome' = [op |-> "ver_ranking", args |-> <<filtro>>,
                        result |-> "ok"]

\* lines 240-244 and 294-297: the sidebar radio; the selectbox of a freshly
\* rendered ranking screen shows its first option
radio_menu(sel) ==
    /\ menu_request = Absent
    /\ menu' = sel
    /\ UNCHANGED <<usersFile, sheet, user, menu_request, clk, build, writers>>
    /\ IF RequiresLogin(sel)
       THEN /\ mostrar' = <<>>
            /\ UNCHANGED scoresFile
            /\ outcome' = [op |-> "radio_menu", args |-> <<sel>>,
                           result |-> "stopped"]
       ELSE IF sel = RankScreen
       THEN RenderRanking(Historico)
       ELSE /\ mostrar' = <<>>
            /\ UNCHANGED scoresFile
            /\ outcome' = [op |-> "radio_menu", args |-> <<sel>>,
                           result |-> "ok"]

\* lines 361-364: the selectbox exists once the ledger has rows
select_filtro(filtro) ==
    /\ menu = RankScreen
    /\ menu_request = Absent
    /\ ~RequiresLogin(menu)
    /\ scoresFile.rows # <<>>
    /\ RenderRanking(filtro)
    /\ UNCHANGED <<usersFile, sheet, user, menu, menu_request, clk, build,
                   writers>>

\* lines 232-233: any widget event while a menu_request is pending (a build
\* without experimental_rerun); the run moves to the requested screen, which
\* no longer renders the widget of the event
pending_request ==
    /\ menu_request # Absent
    /\ menu' = menu_request
    /\ menu_request' = Absent
    /\ mostrar' = <<>>
    /\ outcome' = [op |-> "menu_request", result |-> "ok"]
    /\ UNCHANGED <<usersFile, scoresFile, sheet, user, clk, build, writers>>

(***************************************************************************)
(* The environment: time passes; a file of the local store becomes         *)
(* unreadable (damaged text, wrong encoding), its content unchanged.       *)
(***************************************************************************)
tick ==
    /\ clk < MaxClock
    /\ clk' = clk + 1
    /\ outcome' = [op |-> "tick", result |-> "ok"]
    /\ UNCHANGED <<usersFile, scoresFile, sheet, user, menu, menu_request,
                   mostrar, build, writers>>

corrupt_users ==
    /\ usersFile.readable
    /\ usersFile.rows # <<>>
    /\ usersFile' = [usersFile EXCEPT !.readable = FALSE]
    /\ outcome' = [op |-> "corrupt", result |-> "ok"]
    /\ UNCHANGED <<scoresFile, sheet, user, menu, menu_request, clk,
                   mostrar, build, writers>>

corrupt_scores ==
    /\ scoresFile.readable
    /\ scoresFile.rows # <<>>
    /\ scoresFile' = [scoresFile EXCEPT !.readable = FALSE]
    /\ outcome' = [op |-> "corrupt", result |-> "ok"]
    /\ UNCHANGED <<usersFile, sheet, user, menu, menu_request, clk,
                   mostrar, build, writers>>

(***************************************************************************)
(* Inputs.                                                                 *)
(***************************************************************************)
Par == [i \in 1..NumHoles |-> DefaultStrokes]

EmailA == <<"a", "@", "b", ".", "c">>
EmailARaw == <<" ", "A", "@", "B", ".", "c", " ">>
EmailN == <<"n", "@", "b", ".", "c">>

EmailInputs == { EmailA, EmailARaw, EmailN, <<" ">>, <<"a", "@", "b">> }

NameInputs == { <<>>, <<" ", "a">>, <<"N", "A">> }

NickInputs == { <<" ">>, <<"b">>, <<"N", "A">> }

\* another card with the total of Par
ParTie == [Par EXCEPT ![1] = DefaultStrokes - 1, ![2] = DefaultStrokes + 1]

StrokeInputs ==
    { Par,
      [Par EXCEPT ![1] = MinStrokes, ![NumHoles] = MaxStrokes],
      [Par EXCEPT ![7] = MinStrokes - 1],
      [Par EXCEPT ![NumHoles] = MaxStrokes + 1],
      SubSeq(Par, 1, NumHoles - 1),
      Append(Par, DefaultStrokes) }

\* what the file system and the mirror do on one submission; a denied
\* write ends the run before the mirror is called
DiskAndMirror ==
    {<<"ok", c>> : c \in Connections} \cup {<<"write_denied", "ok">>}

Start ==
    /\ usersFile = [readable |-> TRUE, rows |-> <<>>]
    /\ scoresFile = [readable |-> TRUE, rows |-> <<>>]
    /\ sheet = <<>>
    /\ user = None
    /\ menu = LoginScreen
    /\ menu_request = Absent
    /\ clk = 1
    /\ mostrar = <<>>
    /\ outcome = [op |-> "init", result |-> "ok"]
    /\ writers = <<>>

(***************************************************************************)
(* Spec: one player registers, renames, logs in and out and submits        *)
(* scorecards, all within one second of the wall clock (no step of the     *)
(* ledger or the mirror reads the time it stamps); the mirror is in any of *)
(* its states.  The ranking screen and the passing of time are left to     *)
(* SpecRanking.                                                            *)
(***************************************************************************)
Init ==
    /\ Start
    /\ USE_GOOGLE_SHEETS \in BOOLEAN
    /\ hasRerun \in BOOLEAN
    /\ sortTies = "ledger"

Next ==
    \/ cerrar_sesion
    \/ form_entrar(EmailA)
    \/ \E k \in {<<>>, <<"N", "A">>} : form_registrar(EmailARaw, <<>>, k)
    \/ \E g \in StrokeInputs, dc \in DiskAndMirror :
          form_puntaje(g, dc[1], dc[2])
    \/ \E m \in {LoginScreen, ScoreScreen} : radio_menu(m)
    \/ pending_request
    \/ corrupt_scores

Spec == Init /\ [][Next]_vars

(***************************************************************************)
(* SpecRanking: one player submits valid scorecards over several days and  *)
(* looks at the ranking; the mirror is disabled.                           *)
(***************************************************************************)
InitRanking ==
    /\ Start
    /\ USE_GOOGLE_SHEETS = FALSE
    /\ hasRerun = TRUE
    /\ sortTies \in TieOrders

NextRanking ==
    \/ form_registrar(EmailA, <<>>, <<>>)
    \/ \E g \in {g \in StrokeInputs : NumberInputsAccept(g)} \cup {ParTie} :
          form_puntaje(g, "ok", "ok")
    \/ \E m \in {ScoreScreen, RankScreen} : radio_menu(m)
    \/ \E f \in Filtros : select_filtro(f)
    \/ tick
    \/ corrupt_scores

SpecRanking == InitRanking /\ [][NextRanking]_vars

(***************************************************************************)
(* SpecIdentity: the identity store alone, two players, with the damaged   *)
(* usuarios.csv.  The mirror and the sort are not used.                    *)
(***************************************************************************)
InitIdentity ==
    /\ Start
    /\ USE_GOOGLE_SHEETS = TRUE
    /\ hasRerun \in BOOLEAN
    /\ sortTies = "ledger"

NextIdentity ==
    \/ cerrar_sesion
    \/ \E e \in EmailInputs : form_entrar(e)
    \/ \E e \in EmailInputs, n \in NameInputs, k \in NickInputs :
          form_registrar(e, n, k)
    \/ pending_request
    \/ tick
    \/ corrupt_users

SpecIdentity == InitIdentity /\ [][NextIdentity]_vars

(***************************************************************************)
(* SpecBoard: the ranking of a ledger that many submissions have already   *)
(* built.  The cut of line 380 acts only on more than 50 scorecards, and   *)
(* the windows of lines 366-372 tell apart scorecards that are days old,   *)
(* so this specification starts where one player has registered and        *)
(* submitted n valid scorecards, the last of them at the first instant of  *)
(* the clock and the earlier ones up to a month and a second before it.    *)
(* The totals repeat every MaxStrokes scorecards, so ties lie across the   *)
(* cut.                                                                    *)
(***************************************************************************)
\* how old the last scorecards of the ledger are at Instant(1), newest first
Ages ==
    << 0, UnitsPerSecond, DayUnits, 7 * DayUnits,
       7 * DayUnits + UnitsPerSecond, 10 * DayUnits, 30 * DayUnits,
       30 * DayUnits + UnitsPerSecond >>

\* the age of scorecard k of n: a ledger is in the order of its timestamps
Age(k, n) == Ages[IF n - k + 1 < Len(Ages) THEN n - k + 1 ELSE Len(Ages)]

\* the strokes entered for scorecard k
BoardStrokes(k) == [Par EXCEPT ![1] = MinStrokes + (k % MaxStrokes)]

BoardPlayer ==
    [email |-> EmailA, nombre |-> <<>>, nickname |-> <<>>,
     fecha_registro |-> Strftime(Instant(1)) - Ages[Len(Ages)]]

\* the row form_puntaje wrote for scorecard k of n
BoardRow(k, n) ==
    [fecha |-> Strftime(Instant(1)) - Age(k, n),
     email |-> WriteCell(user_email(BoardPlayer)),
     nombre_mostrar |-> WriteCell(get_display_name(BoardPlayer)),
     golpes |-> BoardStrokes(k),
     total |-> Total(BoardStrokes(k))]

BoardLedger(n) == [k \in 1..n |-> BoardRow(k, n)]

BoardSizes == {Len(Ages), HeadLimit - 1, HeadLimit, HeadLimit + 1, 60}

InitBoard ==
    /\ usersFile = save_users(<<BoardPlayer>>)
    /\ \E n \in BoardSizes :
          scoresFile = [readable |-> TRUE, rows |-> BoardLedger(n)]
    /\ sheet = <<>>
    /\ user = BoardPlayer
    /\ menu = ScoreScreen
    /\ menu_request = Absent
    /\ clk = 1
    /\ mostrar = <<>>
    /\ outcome = [op |-> "init", result |-> "ok"]
    /\ writers = <<>>
    /\ USE_GOOGLE_SHEETS = FALSE
    /\ hasRerun = TRUE
    /\ sortTies \in TieOrders

NextBoard ==
    \/ \E m \in {ScoreScreen, RankScreen} : radio_menu(m)
    \/ \E f \in Filtros : select_filtro(f)
    \/ tick
    \/ corrupt_scores

SpecBoard == InitBoard /\ [][NextBoard]_vars

(***************************************************************************)
(* SpecEmail: the two forms of the login screen with emails of many        *)
(* shapes and no optional data.                                            *)
(***************************************************************************)
EmailShapes ==
    { EmailA, EmailARaw, EmailN,
      <<>>, <<" ">>,
      <<"a", "b", ".", "c">>,
      <<"a", "@", "b">>,
      <<"@", "b", ".", "c">>,
      <<"a", "@", ".", "c">>,
      <<"a", "@", "b", ".">>,
      <<"a", "@", "@", "b", ".", "c">>,
      <<"a", "@", "b", ".", "c", "@">>,
      <<"a", "@", "b", ".", "c", "@", "n">> }

InitEmail ==
    /\ Start
    /\ USE_GOOGLE_SHEETS = FALSE
    /\ hasRerun \in BOOLEAN
    /\ sortTies = "ledger"

NextEmail ==
    \/ cerrar_sesion
    \/ \E e \in EmailShapes : form_entrar(e)
    \/ \E e \in EmailShapes : form_registrar(e, <<>>, <<>>)
    \/ pending_request

SpecEmail == InitEmail /\ [][NextEmail]_vars

(***************************************************************************)
(* SpecWriters: two browser sessions submit a scorecard each.  Streamlit   *)
(* runs the script of every session in a thread of its own and the code    *)
(* takes no lock, so the runs interleave between the statements that touch *)
(* scores.csv: the read of line 335, the rewrite of line 338 and the relay *)
(* of line 341.  writers[s] is session s: its user, where its run is, the  *)
(* frame it read and the row it built.                                     *)
(***************************************************************************)
Sessions == {1, 2}

SessionPlayer(s) ==
    [email |-> IF s = 1 THEN EmailA ELSE EmailN,
     nombre |-> <<>>, nickname |-> <<>>,
     fecha_registro |-> Strftime(Instant(1))]

\* a rewrite that adds the row to the file as it is now (open(..., "a"))
AppendInPlace(df, fila) == LocalWrite(scoresFile.rows, fila)

\* lines 337-338: the frame this run read, with its row, replaces the file
RewriteSnapshot(df, fila) == ScoresCsv(Append(df, fila))

\* lines 329-336: the submit is handled, the ledger read, the row built
puntaje_read(s, entered) ==
    /\ writers[s].pc = "idle"
    /\ NumberInputsAccept(entered)
    /\ scoresFile.readable
    /\ writers' = [writers EXCEPT
                      ![s].pc = "read",
                      ![s].df_scores = ScoresFrame(scoresFile.rows),
                      ![s].nueva_fila = nueva_fila(writers[s].user, entered)]
    /\ outcome' = [op |-> "puntaje_read", args |-> <<s, entered>>,
                   result |-> "ok"]
    /\ UNCHANGED <<usersFile, scoresFile, sheet, user, menu, menu_request,
                   clk, mostrar, build>>

\* lines 337-338
puntaje_write(s) ==
    /\ writers[s].pc = "read"
    /\ scoresFile' = RewriteSnapshot(writers[s].df_scores,
                                     writers[s].nueva_fila)
    /\ writers' = [writers EXCEPT ![s].pc = "written"]
    /\ outcome' = [op |-> "puntaje_write", args |-> <<s>>, result |-> "ok"]
    /\ UNCHANGED <<usersFile, sheet, user, menu, menu_request, clk, mostrar,
                   build>>

\* lines 341-343: the relay, then st.success
puntaje_relay(s, conn) ==
    /\ writers[s].pc = "written"
    /\ sheet' = append_to_gsheet(writers[s].nueva_fila, conn)
    /\ writers' = [writers EXCEPT ![s].pc = "success"]
    /\ outcome' = [op |-> "puntaje_relay", args |-> <<s, conn>>,
                   result |-> "saved"]
    /\ UNCHANGED <<usersFile, scoresFile, user, menu, menu_request, clk,
                   mostrar, build>>

InitWriters ==
    /\ usersFile = save_users(<<SessionPlayer(1), SessionPlayer(2)>>)
    /\ scoresFile = [readable |-> TRUE, rows |-> <<>>]
    /\ sheet = <<>>
    /\ user = None
    /\ menu = LoginScreen
    /\ menu_request = Absent
    /\ clk = 1
    /\ mostrar = <<>>
    /\ outcome = [op |-> "init", result |-> "ok"]
    /\ writers = [s \in Sessions |->
                    [user |-> SessionPlayer(s), pc |-> "idle",
                     df_scores |-> <<>>, nueva_fila |-> None]]
    /\ USE_GOOGLE_SHEETS \in BOOLEAN
    /\ hasRerun = TRUE
    /\ sortTies = "ledger"

NextWriters ==
    \/ \E s \in Sessions, g \in {Par, ParTie} : puntaje_read(s, g)
    \/ \E s \in Sessions : puntaje_write(s)
    \/ \E s \in Sessions, c \in Connections : puntaje_relay(s, c)

SpecWriters == InitWriters /\ [][NextWriters]_vars

(***************************************************************************)
(* Properties.                                                             *)
(***************************************************************************)
\* C1: the user store holds exactly one profile per trimmed, lower-cased
\* email: every stored email is in that form and no two rows share one, so
\* a call whose email differs from a stored one only by letter case or
\* surrounding whitespace cannot have added a second row.
C1_OneProfilePerEmail ==
    \A i, j \in 1..Len(usersFile.rows) :
        /\ usersFile.rows[i].email = Lower(Strip(usersFile.rows[i].email))
        /\ i # j =>
              Lower(Strip(usersFile.rows[i].email))
                  # Lower(Strip(usersFile.rows[j].email))

\* the upper-cased, padded spelling of a stored email was registered with a
\* blank nickname and met the profile that already held nickname "b"
C1_Witness ==
    /\ outcome.op = "form_registrar"
    /\ outcome.result = "ok"
    /\ outcome.args[1] = EmailARaw
    /\ outcome.args[3] = <<" ">>
    /\ Len(usersFile.rows) = 2
    /\ \E i \in 1..Len(usersFile.rows) :
          /\ usersFile.rows[i].email = EmailA
          /\ usersFile.rows[i].nickname = <<"b">>

\* C6: an operation that reads an unreadable local store aborts with a
\* surfaced failure and leaves the file as it was; none proceeds as if the
\* store were empty.
C6_UnreadableStoreAborts ==
    [][/\ ( /\ ~usersFile.readable
            /\ outcome'.op \in {"form_registrar", "form_entrar"}
            /\ outcome'.result # "InvalidEmail" )
          => ( usersFile' = usersFile /\ outcome'.result = "exception" )
       /\ ( /\ ~scoresFile.readable
            /\ outcome'.op \in {"form_puntaje", "ver_ranking"}
            /\ outcome'.result # "InvalidScorecard" )
          => ( scoresFile' = scoresFile /\ outcome'.result = "exception" )
      ]_vars

\* C7: login_or_register on an existing profile with a blank nombre
\* (nickname) argument leaves a stored non-blank nombre (nickname) as it was.
C7_BlankNeverOverwrites ==
    [][( /\ outcome'.op = "form_registrar"
         /\ outcome'.result = "ok"
         /\ usersFile.readable )
       => \A i \in 1..Len(usersFile.rows) :
             usersFile.rows[i].email = Lower(Strip(outcome'.args[1]))
             => \E j \in 1..Len(usersFile'.rows) :
                   /\ usersFile'.rows[j].email = usersFile.rows[i].email
                   /\ ( /\ Strip(outcome'.args[2]) = <<>>
                        /\ usersFile.rows[i].nombre # <<>> )
                      => usersFile'.rows[j].nombre = usersFile.rows[i].nombre
                   /\ ( /\ Strip(outcome'.args[3]) = <<>>
                        /\ usersFile.rows[i].nickname # <<>> )
                      => usersFile'.rows[j].nickname
                            = usersFile.rows[i].nickname
      ]_vars

\* a cell with no text: the empty or whitespace-only string, or the NaN of
\* a field stored empty
Blank(v) == v = NaN \/ Strip(v) = <<>>

IsPrefix(a, b) == Len(a) <= Len(b) /\ SubSeq(b, 1, Len(a)) = a

Valid(strokes) ==
    /\ Len(strokes) = NumHoles
    /\ \A i \in 1..Len(strokes) :
          strokes[i] >= MinStrokes /\ strokes[i] <= MaxStrokes

\* C2: the ledger is append-only: over every step the rows of scores.csv
\* before it are a prefix of the rows after it, and a saved scorecard
\* extends them by exactly one row.
C2_AppendOnly ==
    [][/\ IsPrefix(scoresFile.rows, scoresFile'.rows)
       /\ ( outcome'.op = "form_puntaje" /\ outcome'.result = "saved" )
          => Len(scoresFile'.rows) = Len(scoresFile.rows) + 1
      ]_vars

\* C3: a submission whose strokes are not 14 values within [1,20] ends as
\* InvalidScorecard and leaves scores.csv and the mirror as they were.
C3_InvalidRejected ==
    [][( outcome'.op = "form_puntaje" /\ ~Valid(outcome'.args[1]) )
       => /\ outcome'.result = "InvalidScorecard"
          /\ scoresFile' = scoresFile
          /\ sheet' = sheet
      ]_vars

\* a stroke count above 20 was refused while the ledger held a row
C3_Witness ==
    /\ outcome.op = "form_puntaje"
    /\ outcome.result = "InvalidScorecard"
    /\ outcome.args[1] = [Par EXCEPT ![NumHoles] = MaxStrokes + 1]
    /\ scoresFile.rows # <<>>

\* C4: whatever the mirror does (disabled, no client, append raising,
\* appended), a valid scorecard submitted while scores.csv can be read and
\* written is saved: the run ends "saved" and the file holds the new row
\* as its last row.
C4_MirrorIsolated ==
    [][( /\ outcome'.op = "form_puntaje"
         /\ Valid(outcome'.args[1])
         /\ scoresFile.readable
         /\ outcome'.args[2] = "ok" )
       => /\ outcome'.result = "saved"
          /\ scoresFile'.readable
          /\ Len(scoresFile'.rows) = Len(scoresFile.rows) + 1
          /\ LET last == scoresFile'.rows[Len(scoresFile'.rows)]
             IN /\ last.golpes = outcome'.args[1]
                /\ last.email = user.email
                /\ last.fecha = Strftime(Now)
      ]_vars

\* the mirror was enabled and its append raised; the scorecard was saved
\* locally and nothing reached the sheet
C4_Witness ==
    /\ outcome.op = "form_puntaje"
    /\ outcome.result = "saved"
    /\ outcome.args[3] = "append_error"
    /\ USE_GOOGLE_SHEETS
    /\ Len(scoresFile.rows) = 1
    /\ sheet = <<>>

\* C9: every row of scores.csv has exactly 14 stroke values and its stored
\* total is their sum.
C9_TotalIsSum ==
    \A i \in 1..Len(scoresFile.rows) :
        /\ Len(scoresFile.rows[i].golpes) = NumHoles
        /\ scoresFile.rows[i].total = Sum(scoresFile.rows[i].golpes)

\* two rows, one of them the card 1,3,...,3,20 with total 57
C9_Witness ==
    /\ Len(scoresFile.rows) = 2
    /\ scoresFile.rows[2].golpes
          = [Par EXCEPT ![1] = MinStrokes, ![NumHoles] = MaxStrokes]
    /\ scoresFile.rows[2].total = 57

Count(s, r) == Cardinality({i \in 1..Len(s) : s[i] = r})

\* C10: the rows of the mirror are a sub-multiset of the rows of scores.csv
\* (a row is relayed only once it is stored locally, once, with no retry),
\* and a submission whose local write failed adds no mirror row.
C10_MirrorSubLedger ==
    \A k \in 1..Len(sheet) :
        Count(sheet, sheet[k]) <= Count(scoresFile.rows, sheet[k])

\* C5: the ranking is in ascending order of total, and rows of equal total
\* are in ledger order.
C5_StableRanking ==
    \A k, l \in 1..Len(mostrar) :
        k < l =>
            /\ mostrar[k].total <= mostrar[l].total
            /\ mostrar[k].total = mostrar[l].total
               => mostrar[k].index < mostrar[l].index

\* the smaller of two numbers
Min(a, b) == IF a < b THEN a ELSE b

\* C11: a ranking shows min(50, n) rows of the n scorecards that pass the
\* window, and they are the first rows of the sorted sequence: every
\* scorecard that passes the window and is not shown has a higher total than
\* every row shown, or the same total and a later place in the ledger (the
\* tie-break rule); of 60 scorecards the 50 lowest are shown.
C11_LowestFifty ==
    [][(outcome'.op = "ver_ranking" /\ outcome'.result = "ok") =>
          LET df == ScoresFrame(scoresFile.rows)
              kept == Filtered(outcome'.args[1], df, Now)
              shown == {mostrar'[k].index : k \in 1..Len(mostrar')}
          IN /\ Len(mostrar') = Min(HeadLimit, Cardinality(kept))
             /\ Cardinality(shown) = Len(mostrar')
             /\ shown \subseteq kept
             /\ \A i \in kept \ shown, j \in shown :
                   \/ df[j].total < df[i].total
                   \/ df[j].total = df[i].total /\ j < i]_vars

\* C12: the positions of a ranking are the consecutive integers 1..n in the
\* order of the rows: the k-th row shown has position k, so no position is
\* skipped or repeated and rows of equal total have consecutive positions.
C12_ConsecutivePositions ==
    \A k \in 1..Len(mostrar) : mostrar[k].pos = k

\* a ranking of two scorecards of the same total, numbered 1 and 2
C12_Witness ==
    /\ outcome.op = "ver_ranking"
    /\ outcome.result = "ok"
    /\ Len(mostrar) = 2
    /\ mostrar[1].total = mostrar[2].total
    /\ mostrar[1].pos = 1
    /\ mostrar[2].pos = 2

\* two instants of the same calendar day
SameDate(t, u) ==
    \E d \in 0..(u \div DayUnits) :
        /\ d * DayUnits <= t /\ t < (d + 1) * DayUnits
        /\ d * DayUnits <= u /\ u < (d + 1) * DayUnits

\* the scorecards of the ledger that a window keeps at instant ahora
Window(filtro, rows, ahora) ==
    {i \in 1..Len(rows) :
        \/ filtro = Historico
        \/ filtro = Hoy /\ SameDate(rows[i].fecha, ahora)
        \/ filtro = Ultimos7 /\ rows[i].fecha >= ahora - 7 * DayUnits
        \/ filtro = Ultimos30 /\ rows[i].fecha >= ahora - 30 * DayUnits}

\* C13: the window decides alone which scorecards are ranked: All keeps
\* every row, Today the rows whose calendar date is the current date,
\* Last7Days the rows stamped at or after now - 7 days, Last30Days those at
\* or after now - 30 days.  The rows shown are among the rows the window
\* keeps, and are all of them when they are at most 50.
C13_WindowFilter ==
    [][(outcome'.op = "ver_ranking" /\ outcome'.result = "ok") =>
          LET kept == Window(outcome'.args[1], scoresFile.rows, Now)
              shown == {mostrar'[k].index : k \in 1..Len(mostrar')}
          IN /\ shown \subseteq kept
             /\ Cardinality(kept) <= HeadLimit => shown = kept]_vars

\* Last7Days has been rendered at the first instant: the scorecard stamped
\* exactly 7 days before is shown, the one of 10 days before, which
\* Last30Days and All keep, is not
C13_Witness ==
    /\ outcome.op = "ver_ranking"
    /\ outcome.result = "ok"
    /\ outcome.args[1] = Ultimos7
    /\ clk = 1
    /\ \E i, j \in 1..Len(scoresFile.rows) :
          /\ scoresFile.rows[i].fecha = Now - 10 * DayUnits
          /\ scoresFile.rows[j].fecha = Now - 7 * DayUnits
          /\ \A k \in 1..Len(mostrar) : mostrar[k].index # i
          /\ \E k \in 1..Len(mostrar) : mostrar[k].index = j
          /\ i \in Window(Ultimos30, scoresFile.rows, Now)
          /\ i \in Window(Historico, scoresFile.rows, Now)

\* the shape local@domain.tld: one "@" with text before it, and after it a
\* "." with text on both sides
HasShape(s) ==
    \E i \in 2..Len(s) :
        /\ s[i] = "@"
        /\ \A k \in 1..Len(s) : k # i => s[k] # "@"
        /\ \E j \in (i + 2)..(Len(s) - 1) : s[j] = "."

\* C14: resolveOrCreate with an email that is blank or has not the shape
\* local@domain.tld fails with InvalidEmail before any write: the user store
\* is left as it was and holds no profile with that email.
C14_InvalidEmailRejected ==
    [][(outcome'.op = "form_registrar"
          /\ ~HasShape(Strip(outcome'.args[1]))) =>
            /\ outcome'.result = "InvalidEmail"
            /\ usersFile' = usersFile
            /\ \A i \in 1..Len(usersFile'.rows) :
                  usersFile'.rows[i].email
                      # Lower(Strip(outcome'.args[1]))]_vars

\* C15: resolveOrCreate for an email that already has a profile leaves that
\* profile's email and registeredAt as they were and every other profile's
\* row unchanged; no row is added or dropped.
C15_UpdateFrame ==
    [][(/\ outcome'.op = "form_registrar"
        /\ outcome'.result = "ok"
        /\ \E i \in 1..Len(usersFile.rows) :
              usersFile.rows[i].email = Lower(Strip(outcome'.args[1]))) =>
          LET e == Lower(Strip(outcome'.args[1]))
              old == usersFile.rows
              new == usersFile'.rows
          IN /\ Len(new) = Len(old)
             /\ \A i \in 1..Len(old) :
                   IF old[i].email = e
                   THEN /\ new[i].email = e
                        /\ new[i].fecha_registro = old[i].fecha_registro
                   ELSE new[i] = old[i]]_vars

\* a returned profile holds what a stored row holds; an optional field that
\* is stored empty may be returned as missing
SameProfile(u, row) ==
    /\ u.email = row.email
    /\ u.fecha_registro = row.fecha_registro
    /\ WriteCell(u.nombre) = row.nombre
    /\ WriteCell(u.nickname) = row.nickname

\* C16: lookup performs no write: the user store and the ledger are the
\* same before and after it; from a readable store it returns the stored
\* profile of the normalized email when there is one, and NotFound (the
\* session keeps its user) when there is none.
C16_LookupReadsOnly ==
    [][(outcome'.op = "form_entrar"
          /\ outcome'.result \in {"ok", "NotFound"}) =>
          LET e == Lower(Strip(outcome'.args[1]))
              rows == usersFile.rows
          IN /\ usersFile' = usersFile
             /\ scoresFile' = scoresFile
             /\ usersFile.readable =>
                   IF \E i \in 1..Len(rows) : rows[i].email = e
                   THEN /\ outcome'.result = "ok"
                        /\ \E i \in 1..Len(rows) :
                              /\ rows[i].email = e
                              /\ SameProfile(user', rows[i])
                   ELSE /\ outcome'.result = "NotFound"
                        /\ user' = user]_vars

\* C17: rank does not change its input and is idempotent: the stored ledger
\* is the same before and after every rendering of the ranking, and a
\* rendering that follows another one of the same window at once (same
\* instant, ledger untouched in between) shows the same table.
C17_RankReadsOnly ==
    [][(outcome'.op = "ver_ranking") =>
          /\ scoresFile' = scoresFile
          /\ (/\ outcome.op = "ver_ranking"
              /\ outcome.args = outcome'.args
              /\ outcome.result = outcome'.result) => mostrar' = mostrar]_vars

\* a ledger whose second scorecard has the lower total has been ranked: the
\* table shows it first, the ledger still holds it second
C17_Witness ==
    /\ outcome.op = "ver_ranking"
    /\ outcome.result = "ok"
    /\ Len(scoresFile.rows) = 2
    /\ scoresFile.rows[1].total > scoresFile.rows[2].total
    /\ Len(mostrar) = 2
    /\ mostrar[1].index = 2
    /\ mostrar[2].index = 1

\* the row of scores.csv that a run's nueva_fila becomes
Written(fila) == ScoresCsv(<<fila>>).rows[1]

\* C18: appends of two sessions are not safe against each other.  Once
\* both have reported success: if each read the ledger before the other
\* rewrote it (both read the empty ledger), the ledger holds one row only,
\* the row of one of the two; if one read after the other's rewrite (the
\* appends were serialized), the ledger holds both rows, in that order.
C18_ReadThenRewrite ==
    (\A s \in DOMAIN writers : writers[s].pc = "success") =>
        \A s, t \in DOMAIN writers :
            s # t =>
               /\ (writers[s].df_scores = <<>> /\ writers[t].df_scores = <<>>)
                     => /\ Len(scoresFile.rows) = 1
                        /\ scoresFile.rows[1]
                              \in {Written(writers[s].nueva_fila),
                                   Written(writers[t].nueva_fila)}
               /\ writers[t].df_scores # <<>>
                     => scoresFile.rows = <<Written(writers[s].nueva_fila),
                                            Written(writers[t].nueva_fila)>>

\* the lost update: both sessions read the empty ledger, both reported
\* success, and the ledger holds the row of session 2 only
C18_Witness ==
    /\ DOMAIN writers = Sessions
    /\ \A s \in Sessions :
          writers[s].pc = "success" /\ writers[s].df_scores = <<>>
    /\ scoresFile.rows = <<Written(writers[2].nueva_fila)>>

\* C19: scorecards come from logged-in sessions only.  A run that adds to
\* the ledger has a logged-in user, adds exactly one row, and that row
\* carries the user's email; a logout leaves the session without a user and
\* on the login screen with no screen change pending, so the next run shows
\* the login and registration forms.
C19_SessionGate ==
    [][/\ scoresFile'.rows # scoresFile.rows =>
             /\ user # None
             /\ user' = user
             /\ Len(scoresFile'.rows) = Len(scoresFile.rows) + 1
             /\ scoresFile'.rows[Len(scoresFile'.rows)].email = user.email
       /\ outcome'.op = "cerrar_sesion" =>
             /\ user' = None
             /\ menu' = LoginScreen
             /\ menu_request' = Absent]_vars

\* the logged-in player a@b.c has saved a second scorecard under that email
C19_Witness ==
    /\ outcome.op = "form_puntaje"
    /\ outcome.result = "saved"
    /\ user # None
    /\ user.email = EmailA
    /\ Len(scoresFile.rows) = 2
    /\ scoresFile.rows[2].email = EmailA
====
